---- MODULE Spec2Model ----
(***************************************************************************)
(* State-machine model of AuthContextProvider                              *)
(* (src/src/lib/context/auth-context.tsx): the session manager that keeps  *)
(* local key pairs, resolves them to remote profiles, selects the active   *)
(* user and persists the selection, and the notification poller.           *)
(*                                                                         *)
(* React state (useState) is one variable per hook.  The two storage items *)
(* named in the source comment (lines 66-70), 'keyPair' and 'keyPairs',    *)
(* and the 'lastChecked' item are the ls* variables.  Every await is a     *)
(* suspension point: a request in flight is an element of manageReqs or    *)
(* bulkReqs and its continuation is a separate action.  A useEffect runs   *)
(* after the render that follows the state change, so it is a separate     *)
(* action enabled by a pending flag.                                       *)
(***************************************************************************)
EXTENDS Integers, Sequences, FiniteSets

\* Bounds of the model
NumKeys == 2
MaxCalls == 3
MaxTime == 2

VARIABLES
  user,                      \* useState<UserWithKey | null>, line 53
  users,                     \* useState<UserWithKey[]>, line 54
  error,                     \* useState<Error | null>, line 56
  loading,                   \* useState(true), line 57
  lastCheckedNotifications,  \* useState<Date | null>, line 61
  timelineCursor,            \* useState<Date | null>, line 64
  lsKeyPair,                 \* storage item 'keyPair'
  lsKeyPairs,                \* storage item 'keyPairs'
  lsLastChecked,             \* storage item 'lastChecked'
  remote,                    \* what the profile service answers for each public key
  now,                       \* the clock read by new Date()
  pathname,                  \* router.pathname
  manageReqs,                \* manageUser calls suspended at their await
  bulkReqs,                  \* Promise.all fan-outs not yet settled
  userEffect,                \* the [user] effect is scheduled
  lcEffect,                  \* the [lastCheckedNotifications] effect is scheduled
  poll,                      \* the notification request SWR has in flight
  mounted,                   \* the mount effect has run
  calls,                     \* number of handleUserAuth invocations so far
  thrown,                    \* the last signOut() rejected to its caller
  call                       \* history: the last operation the UI invoked

vars == <<user, users, error, loading, lastCheckedNotifications, timelineCursor,
          lsKeyPair, lsKeyPairs, lsLastChecked, remote, now, pathname,
          manageReqs, bulkReqs, userEffect, lcEffect, poll, mounted, calls,
          thrown, call>>

sessionVars == <<user, users, error, loading, lsKeyPair, lsKeyPairs,
                 manageReqs, bulkReqs, userEffect, calls, thrown, call>>

notifVars == <<lastCheckedNotifications, timelineCursor, lsLastChecked, now,
               pathname, lcEffect, poll>>

----------------------------------------------------------------------------
\* Values

Null == [null |-> TRUE]

Keys == 1..NumKeys

\* A KeyPair is identified by its publicKey (the only field the code reads).
KeyPair(k) == [publicKey |-> k]

KeyPairs == {KeyPair(k) : k \in Keys}

\* The UserFull the service returns for a key.
UserFull(keyPair) == [id |-> 100 + keyPair.publicKey]

\* { ...user, keyPair }
UserWithKey(u, keyPair) == [id |-> u.id, keyPair |-> keyPair]

StorageError == [error |-> "storage"]

Outcomes == {"ok", "null", "fail"}

RECURSIVE SeqsOver(_, _)
SeqsOver(S, n) ==
  IF n = 0 THEN {<<>>}
  ELSE LET shorter == SeqsOver(S, n - 1)
       IN shorter \cup {Append(s, x) : s \in {t \in shorter : Len(t) = n - 1}, x \in S}

NoDuplicates(s) == \A i, j \in 1..Len(s) : s[i].publicKey = s[j].publicKey => i = j

----------------------------------------------------------------------------
\* Storage module and fetchJSON (not part of the source file)

getKeyPair == lsKeyPair

getKeyPairs == lsKeyPairs

addKeyPair(keyPairs, keyPair) == Append(keyPairs, keyPair)

removeKeyPair(keyPairs, keyPair) ==
  IF keyPair = Null THEN keyPairs
  ELSE SelectSeq(keyPairs, LAMBDA kp : kp.publicKey # keyPair.publicKey)

\* fetchJSON on /api/signer/<publicKey>/user: a body with a result, a body
\* without one, or a rejected promise.
fetchJSON(publicKey) == remote[publicKey]

----------------------------------------------------------------------------
\* Pure parts of the handlers

\* fetchUserForKey: (user as UserFull) || null, when fetchJSON fulfils.
fetchUserForKey(keyPair) ==
  IF fetchJSON(keyPair.publicKey) = "ok" THEN UserFull(keyPair) ELSE Null

\* fetchUserForKey has no catch: a rejection of fetchJSON rejects it.
fetchRejects(keyPair) == fetchJSON(keyPair.publicKey) = "fail"

findByReference(keyPairs, keyPair) == FALSE

\* keyPairs.find((keyPair_) => keyPair_.publicKey === keyPair.publicKey)
find(keyPairs, keyPair) ==
  \E i \in 1..Len(keyPairs) : keyPairs[i].publicKey = keyPair.publicKey

lastKeyPair(keyPairs) == keyPairs[Len(keyPairs)]

\* keyPairs[0], the fallback of line 105
firstKeyPair(keyPairs) == keyPairs[1]

\* The list handed to Promise.all: the keyPairs read at line 102.
bulkKeyPairs(keyPairs, keyPair) == keyPairs

usersWithKeysFilterFirst(fetched, keyPairs) ==
  LET present == SelectSeq(fetched, LAMBDA u : u # Null)
  IN [j \in 1..Len(present) |-> UserWithKey(present[j], keyPairs[j])]

\* Lines 125-130: pair each fetched user with keyPairs[index], drop the nulls.
RECURSIVE usersWithKeys(_, _)
usersWithKeys(fetched, keyPairs) ==
  IF Len(fetched) = 0 THEN <<>>
  ELSE LET rest == usersWithKeys(Tail(fetched), Tail(keyPairs))
       IN IF Head(fetched) # Null
          THEN <<UserWithKey(Head(fetched), Head(keyPairs))>> \o rest
          ELSE rest

\* The synchronous part of handleUserAuth (lines 93-131) on the storage
\* content (stKeyPair, stKeyPairs).
handleUserAuthSync(forceKeyPair, stKeyPair, stKeyPairs) ==
  LET stored    == IF forceKeyPair # Null THEN forceKeyPair ELSE stKeyPair
      keyPair0  == IF forceKeyPair # Null THEN forceKeyPair ELSE stored
      keyPairs  == stKeyPairs
      fallback  == keyPair0 = Null /\ Len(keyPairs) > 0
      keyPair   == IF fallback THEN firstKeyPair(keyPairs) ELSE keyPair0
      add       == keyPair # Null /\ ~find(keyPairs, keyPair)
  IN [lsKeyPair  |-> stored,
      lsKeyPairs |-> IF add THEN addKeyPair(keyPairs, keyPair) ELSE keyPairs,
      keyPair    |-> keyPair,
      fallback   |-> fallback,
      bulk       |-> bulkKeyPairs(keyPairs, keyPair)]

reconcileOnlyWhenAbsent(stored, u) == stored = Null

\* Line 139
reconcileNeeded(stored, u) ==
  stored = Null \/ stored.publicKey # u.keyPair.publicKey

\* A Date is its time value; new Date() reads the clock.
Date(t) == [time |-> t]

\* Date.prototype.toISOString and new Date(string)
toISOString(date) == [iso |-> date.time]

parseDate(str) == [time |-> str.iso]

swrKeyOnEveryScreen ==
  IF user # Null /\ user.id # 0 /\ lastCheckedNotifications # Null
  THEN [userId |-> user.id, last_time |-> toISOString(lastCheckedNotifications)]
  ELSE Null

\* The SWR key of lines 169-175
swrKey ==
  IF pathname # "/notifications" /\ user # Null /\ user.id # 0
     /\ lastCheckedNotifications # Null
  THEN [userId |-> user.id, last_time |-> toISOString(lastCheckedNotifications)]
  ELSE Null

Quiescent == manageReqs = {} /\ bulkReqs = {} /\ ~userEffect

PublicKeyOf(u) == IF u = Null THEN 0 ELSE u.keyPair.publicKey

Snapshot ==
  [user |-> PublicKeyOf(user),
   users |-> [i \in 1..Len(users) |-> users[i].keyPair.publicKey],
   keyPair |-> lsKeyPair, keyPairs |-> lsKeyPairs]

----------------------------------------------------------------------------
\* History kept for stating the properties: the operation the UI invoked last,
\* the storage content it found, and whether it has run alone since (it was
\* invoked with nothing in flight and only its own continuations followed).
\* once is the state a preceding handleUserAuth() left, when that one ran
\* alone to completion and this one is a handleUserAuth() too.

CallRecord(op, forceKeyPair, fail) ==
  [op |-> op, force |-> forceKeyPair, fail |-> fail,
   keyPair |-> lsKeyPair, keyPairs |-> lsKeyPairs,
   alone |-> Quiescent,
   once |-> IF /\ op = "handleUserAuth" /\ forceKeyPair = Null
               /\ Quiescent /\ call.op = "handleUserAuth" /\ call.force = Null
               /\ call.alone
            THEN Snapshot ELSE Null]

NoCall ==
  [op |-> "none", force |-> Null, fail |-> "none", keyPair |-> Null,
   keyPairs |-> <<>>, alone |-> FALSE, once |-> Null]

Pending == [pending |-> TRUE]

----------------------------------------------------------------------------
\* Initial state: the values of the useState hooks at construction, over every
\* storage content earlier runs can have left (a duplicate-free list, any
\* active key pair or none) and every answer of the profile service, which
\* answers each key the same way throughout a run.  An active key pair that
\* is not in the list is left behind when signOut runs between a completed
\* resolution and its [user] effect: the effect then persists the key pair
\* signOut has just removed (Mount, ManageUserDone, SignOut, UserEffect).

InitState ==
  /\ user = Null
  /\ users = <<>>
  /\ error = Null
  /\ loading = TRUE
  /\ lastCheckedNotifications = Null
  /\ timelineCursor = Null
  /\ lsKeyPair \in KeyPairs \cup {Null}
  /\ lsKeyPairs \in {s \in SeqsOver(KeyPairs, NumKeys) : NoDuplicates(s)}
  /\ remote \in [Keys -> Outcomes]
  /\ now = 1
  /\ manageReqs = {}
  /\ bulkReqs = {}
  /\ userEffect = FALSE
  /\ lcEffect = FALSE
  /\ poll = Null
  /\ mounted = FALSE
  /\ calls = 0
  /\ thrown = FALSE
  /\ call = NoCall

\* The session manager is checked on the home screen with nothing persisted
\* under 'lastChecked'; the poller over both screens and both cases.
Init ==
  /\ InitState
  /\ lsLastChecked = Null
  /\ pathname = "/"

InitNotif ==
  /\ InitState
  /\ lsLastChecked \in {Null, toISOString(Date(0))}
  /\ pathname \in {"/", "/notifications"}

----------------------------------------------------------------------------
\* handleUserAuth, lines 93-132, run on the storage content it finds.
\* Promise.all of an empty list fulfils in the microtask that follows the
\* handler, before any other task: setUsers([]) belongs to the same step.

handleUserAuthKeepsUser(forceKeyPair, stKeyPair, stKeyPairs) ==
  LET s   == handleUserAuthSync(forceKeyPair, stKeyPair, stKeyPairs)
      inv == calls + 1
  IN /\ calls' = inv
     /\ lsKeyPair' = s.lsKeyPair
     /\ lsKeyPairs' = s.lsKeyPairs
     /\ user' = user
     /\ userEffect' = userEffect
     /\ IF s.keyPair # Null
        THEN /\ manageReqs' = manageReqs \cup
                  {[inv |-> inv, keyPair |-> s.keyPair, fallback |-> s.fallback]}
             /\ loading' = TRUE
        ELSE /\ manageReqs' = manageReqs
             /\ loading' = FALSE
     /\ IF Len(s.bulk) = 0
        THEN /\ users' = <<>>
             /\ bulkReqs' = bulkReqs
        ELSE /\ users' = users
             /\ bulkReqs' = bulkReqs \cup
                  {[inv |-> inv, keyPairs |-> s.bulk,
                    fetched |-> [i \in 1..Len(s.bulk) |-> Pending]]}

handleUserAuth(forceKeyPair, stKeyPair, stKeyPairs) ==
  LET s   == handleUserAuthSync(forceKeyPair, stKeyPair, stKeyPairs)
      inv == calls + 1
  IN /\ calls' = inv
     /\ lsKeyPair' = s.lsKeyPair
     /\ lsKeyPairs' = s.lsKeyPairs
     /\ IF s.keyPair # Null
        THEN /\ manageReqs' = manageReqs \cup
                  {[inv |-> inv, keyPair |-> s.keyPair, fallback |-> s.fallback]}
             /\ loading' = TRUE
             /\ user' = user
             /\ userEffect' = userEffect
        ELSE /\ manageReqs' = manageReqs
             /\ loading' = FALSE
             /\ user' = Null
             /\ userEffect' = (userEffect \/ user # Null)
     /\ IF Len(s.bulk) = 0
        THEN /\ users' = <<>>
             /\ bulkReqs' = bulkReqs
        ELSE /\ users' = users
             /\ bulkReqs' = bulkReqs \cup
                  {[inv |-> inv, keyPairs |-> s.bulk,
                    fetched |-> [i \in 1..Len(s.bulk) |-> Pending]]}

\* The mount effect, lines 145-151.
Mount ==
  /\ ~mounted
  /\ mounted' = TRUE
  /\ handleUserAuth(Null, getKeyPair, getKeyPairs)
  /\ lastCheckedNotifications' =
       parseDate(IF lsLastChecked # Null THEN lsLastChecked ELSE toISOString(Date(now)))
  /\ lcEffect' = TRUE
  /\ timelineCursor' = Date(now)
  /\ call' = CallRecord("handleUserAuth", Null, "none")
  /\ UNCHANGED <<error, thrown, lsLastChecked, remote, now, pathname, poll>>

\* handleUserAuth(forceKeyPair?) invoked through the context.
HandleUserAuth(forceKeyPair) ==
  /\ mounted
  /\ calls < MaxCalls
  /\ handleUserAuth(forceKeyPair, getKeyPair, getKeyPairs)
  /\ call' = CallRecord("handleUserAuth", forceKeyPair, "none")
  /\ UNCHANGED <<error, thrown>>
  /\ UNCHANGED <<notifVars, remote, mounted>>

\* manageUser after its await, lines 82-86.  A rejected fetch rejects
\* manageUser at line 82 and nothing after it runs.
ManageUserDone(r) ==
  /\ r \in manageReqs
  /\ manageReqs' = manageReqs \ {r}
  /\ IF fetchRejects(r.keyPair)
     THEN UNCHANGED <<user, userEffect, loading>>
     ELSE LET u == fetchUserForKey(r.keyPair)
          IN /\ user' = IF u # Null THEN UserWithKey(u, r.keyPair) ELSE user
             /\ userEffect' = (userEffect \/ u # Null)
             /\ loading' = FALSE
  /\ UNCHANGED <<users, error, lsKeyPair, lsKeyPairs, bulkReqs, calls, thrown, call>>
  /\ UNCHANGED <<notifVars, remote, mounted>>

BulkFetchDoneLatestOnly(r, i) ==
  /\ r \in bulkReqs
  /\ i \in 1..Len(r.keyPairs)
  /\ r.fetched[i] = Pending
  /\ IF fetchRejects(r.keyPairs[i])
     THEN /\ bulkReqs' = bulkReqs \ {r}
          /\ users' = users
     ELSE LET fetched == [r.fetched EXCEPT ![i] = fetchUserForKey(r.keyPairs[i])]
          IN IF \A j \in 1..Len(fetched) : fetched[j] # Pending
             THEN /\ bulkReqs' = bulkReqs \ {r}
                  /\ users' = IF r.inv = calls
                              THEN usersWithKeys(fetched, r.keyPairs) ELSE users
             ELSE /\ bulkReqs' = (bulkReqs \ {r}) \cup {[r EXCEPT !.fetched = fetched]}
                  /\ users' = users
  /\ UNCHANGED <<user, error, loading, lsKeyPair, lsKeyPairs, manageReqs,
                 userEffect, calls, thrown, call>>
  /\ UNCHANGED <<notifVars, remote, mounted>>

\* One fetch of the Promise.all of line 124 settles.  A rejection rejects the
\* Promise.all, whose then-callback never runs; when the last one fulfils the
\* callback of lines 125-130 runs.
BulkFetchDone(r, i) ==
  /\ r \in bulkReqs
  /\ i \in 1..Len(r.keyPairs)
  /\ r.fetched[i] = Pending
  /\ IF fetchRejects(r.keyPairs[i])
     THEN /\ bulkReqs' = bulkReqs \ {r}
          /\ users' = users
     ELSE LET fetched == [r.fetched EXCEPT ![i] = fetchUserForKey(r.keyPairs[i])]
          IN IF \A j \in 1..Len(fetched) : fetched[j] # Pending
             THEN /\ bulkReqs' = bulkReqs \ {r}
                  /\ users' = usersWithKeys(fetched, r.keyPairs)
             ELSE /\ bulkReqs' = (bulkReqs \ {r}) \cup {[r EXCEPT !.fetched = fetched]}
                  /\ users' = users
  /\ UNCHANGED <<user, error, loading, lsKeyPair, lsKeyPairs, manageReqs,
                 userEffect, calls, thrown, call>>
  /\ UNCHANGED <<notifVars, remote, mounted>>

\* The [user] effect, lines 134-143.
UserEffect ==
  /\ userEffect
  /\ userEffect' = FALSE
  /\ lsKeyPair' = IF user # Null /\ reconcileNeeded(getKeyPair, user)
                  THEN user.keyPair ELSE lsKeyPair
  /\ UNCHANGED <<user, users, error, loading, lsKeyPairs, manageReqs, bulkReqs,
                 calls, thrown, call>>
  /\ UNCHANGED <<notifVars, remote, mounted>>

\* setUser called by the account switcher with an entry of usersWithKeys.
SetUser(i) ==
  /\ mounted
  /\ i \in 1..Len(users)
  /\ user' = users[i]
  /\ userEffect' = TRUE
  /\ call' = CallRecord("setUser", users[i].keyPair, "none")
  /\ UNCHANGED <<users, error, loading, lsKeyPair, lsKeyPairs, manageReqs,
                 bulkReqs, calls, thrown>>
  /\ UNCHANGED <<notifVars, remote, mounted>>

rethrowSignOut == [error |-> error, thrown |-> TRUE]

\* The catch clause of signOut, lines 159-161.
catchSignOut == [error |-> StorageError, thrown |-> FALSE]

FailPoints == {"none", "getKeyPair", "removeItem", "removeKeyPair", "handleUserAuth"}

\* signOut, lines 153-162.  fail names the storage access that throws, if
\* one does: the statements before it have run, the catch clause follows.
SignOut(fail) ==
  /\ mounted
  /\ calls < MaxCalls
  /\ fail \in FailPoints
  /\ call' = CallRecord("signOut", Null, fail)
  /\ LET keyPair == getKeyPair
         removed == removeKeyPair(getKeyPairs, keyPair)
     IN CASE fail = "none" ->
               /\ handleUserAuth(Null, Null, removed)
               /\ thrown' = FALSE
               /\ UNCHANGED error
          [] fail \in {"getKeyPair", "removeItem"} ->
               /\ error' = catchSignOut.error
               /\ thrown' = catchSignOut.thrown
               /\ UNCHANGED <<user, users, loading, lsKeyPair, lsKeyPairs,
                              manageReqs, bulkReqs, userEffect, calls>>
          [] fail = "removeKeyPair" ->
               /\ lsKeyPair' = Null
               /\ error' = catchSignOut.error
               /\ thrown' = catchSignOut.thrown
               /\ UNCHANGED <<user, users, loading, lsKeyPairs,
                              manageReqs, bulkReqs, userEffect, calls>>
          [] fail = "handleUserAuth" ->
               /\ lsKeyPair' = Null
               /\ lsKeyPairs' = removed
               /\ loading' = TRUE
               /\ calls' = calls + 1
               /\ error' = catchSignOut.error
               /\ thrown' = catchSignOut.thrown
               /\ UNCHANGED <<user, users, manageReqs, bulkReqs, userEffect>>
  /\ UNCHANGED <<notifVars, remote, mounted>>

----------------------------------------------------------------------------
\* Notification poller

\* resetNotifications, lines 186-188
ResetNotifications ==
  /\ mounted
  /\ lastCheckedNotifications' = Date(now)
  /\ lcEffect' = TRUE
  /\ UNCHANGED <<timelineCursor, lsLastChecked, now, pathname, poll>>
  /\ UNCHANGED <<sessionVars, remote, mounted>>

LastCheckedEffectOnce ==
  /\ lcEffect
  /\ lcEffect' = FALSE
  /\ lsLastChecked' = IF lastCheckedNotifications # Null /\ lsLastChecked = Null
                      THEN toISOString(lastCheckedNotifications)
                      ELSE lsLastChecked
  /\ UNCHANGED <<lastCheckedNotifications, timelineCursor, now, pathname, poll>>
  /\ UNCHANGED <<sessionVars, remote, mounted>>

\* The [lastCheckedNotifications] effect, lines 190-196
LastCheckedEffect ==
  /\ lcEffect
  /\ lcEffect' = FALSE
  /\ lsLastChecked' = IF lastCheckedNotifications # Null
                      THEN toISOString(lastCheckedNotifications)
                      ELSE lsLastChecked
  /\ UNCHANGED <<lastCheckedNotifications, timelineCursor, now, pathname, poll>>
  /\ UNCHANGED <<sessionVars, remote, mounted>>

\* SWR issues the fetcher for the current key (first use of a key, or the
\* refreshInterval timer), lines 167-184.
PollIssue ==
  /\ mounted
  /\ swrKey # Null
  /\ poll # swrKey
  /\ poll' = swrKey
  /\ UNCHANGED <<lastCheckedNotifications, timelineCursor, lsLastChecked, now,
                 pathname, lcEffect>>
  /\ UNCHANGED <<sessionVars, remote, mounted>>

\* The notification request settles.
PollDone ==
  /\ poll # Null
  /\ poll' = Null
  /\ UNCHANGED <<lastCheckedNotifications, timelineCursor, lsLastChecked, now,
                 pathname, lcEffect>>
  /\ UNCHANGED <<sessionVars, remote, mounted>>

\* The router moves to another screen.
Navigate(p) ==
  /\ p # pathname
  /\ pathname' = p
  /\ UNCHANGED <<lastCheckedNotifications, timelineCursor, lsLastChecked, now,
                 lcEffect, poll>>
  /\ UNCHANGED <<sessionVars, remote, mounted>>

\* Time passes.
Tick ==
  /\ mounted
  /\ now < MaxTime
  /\ now' = now + 1
  /\ UNCHANGED <<lastCheckedNotifications, timelineCursor, lsLastChecked,
                 pathname, lcEffect, poll>>
  /\ UNCHANGED <<sessionVars, remote, mounted>>

----------------------------------------------------------------------------
\* The session manager: mount, the operations of the context, and their
\* continuations.
Next ==
  \/ Mount
  \/ \E f \in KeyPairs \cup {Null} : HandleUserAuth(f)
  \/ \E r \in manageReqs : ManageUserDone(r)
  \/ \E r \in bulkReqs : \E i \in 1..Len(r.keyPairs) : BulkFetchDone(r, i)
  \/ UserEffect
  \/ \E i \in 1..Len(users) : SetUser(i)
  \/ \E fail \in FailPoints : SignOut(fail)

Spec == Init /\ [][Next]_vars

\* The notification poller, with the session changed by the mount-time
\* handleUserAuth() and by the account switcher.
NextNotif ==
  \/ Mount
  \/ \E r \in manageReqs : ManageUserDone(r)
  \/ \E r \in bulkReqs : \E i \in 1..Len(r.keyPairs) : BulkFetchDone(r, i)
  \/ UserEffect
  \/ \E i \in 1..Len(users) : SetUser(i)
  \/ ResetNotifications
  \/ LastCheckedEffect
  \/ PollIssue
  \/ PollDone
  \/ \E p \in {"/", "/notifications"} : Navigate(p)
  \/ Tick

SpecNotif == InitNotif /\ [][NextNotif]_vars

----------------------------------------------------------------------------
\* Properties

\* The last operation was op, ran alone, and everything it started has
\* completed (resolutions settled, the [user] effect has run).
Completed(op) == call.op = op /\ call.alone /\ Quiescent

\* Number of entries of knownSessions whose key pair has public key k.
EntriesFor(k) == Cardinality({i \in 1..Len(users) : users[i].keyPair.publicKey = k})

\* No request to the profile service is rejected in this run.
NoRejection == \A k \in Keys : fetchJSON(k) # "fail"

\* C1: after a handleUserAuth(forceKeyPair?) that ran alone and whose
\* resolutions have all completed, knownSessions holds exactly one entry for
\* every key pair of the store's list (as it stands then) that resolves to a
\* profile, and none for a key pair of the list that resolves to null.  Stated
\* for the runs in which no request is rejected and for the calls that found
\* the store's active key pair, if any, in the store's list.
C1_KnownSessionsMatchStore ==
  ( /\ Completed("handleUserAuth")
    /\ NoRejection
    /\ (call.keyPair = Null \/ find(call.keyPairs, call.keyPair)) ) =>
    \A i \in 1..Len(lsKeyPairs) :
      EntriesFor(lsKeyPairs[i].publicKey) =
        IF fetchJSON(lsKeyPairs[i].publicKey) = "ok" THEN 1 ELSE 0

\* C2: after a signOut() that met no storage failure, ran alone and whose
\* resolutions have completed (the fallback candidate answering with a profile
\* or with null), the key pair that was active before (an entry of the list)
\* is not in the store's list and activeSession is null or a session of another public key.
C2_SignedOutKeyPairGone ==
  ( /\ Completed("signOut")
    /\ call.fail = "none"
    /\ call.keyPair # Null
    /\ find(call.keyPairs, call.keyPair)
    /\ \A i \in 1..Len(lsKeyPairs) : fetchJSON(lsKeyPairs[i].publicKey) # "fail" )
  => /\ ~find(lsKeyPairs, call.keyPair)
     /\ (user = Null \/ user.keyPair.publicKey # call.keyPair.publicKey)

\* A handleUserAuth() without forced key pair that finds no active key pair
\* and a non-empty list starts one resolution, of the first element of the list.
FallbackResolvesFirst ==
  ( /\ calls' = calls + 1
    /\ call'.op = "handleUserAuth"
    /\ call'.force = Null
    /\ call'.keyPair = Null
    /\ call'.keyPairs # <<>> )
  => manageReqs' = manageReqs \cup
       {[inv |-> calls', keyPair |-> Head(call'.keyPairs), fallback |-> TRUE]}

\* C3 as claimed: a handleUserAuth() without forced key pair that finds no
\* active key pair and a non-empty list resolves the first element of the list,
\* and when that resolution completes activeSession.keyPair is that element.
C3_FallbackBecomesActive ==
  [][ /\ FallbackResolvesFirst
      /\ \A r \in manageReqs :
           r.fallback /\ r \notin manageReqs'
           => user' # Null /\ user'.keyPair = r.keyPair ]_vars

\* C3 amended: a handleUserAuth() without forced key pair that finds no
\* active key pair and a non-empty list resolves the first element of the list,
\* and when that resolution completes with a profile activeSession.keyPair is
\* that element.
C3_FallbackBecomesActiveOnSuccess ==
  [][ /\ FallbackResolvesFirst
      /\ \A r \in manageReqs :
           r.fallback /\ r \notin manageReqs' /\ fetchJSON(r.keyPair.publicKey) = "ok"
           => user' # Null /\ user'.keyPair = r.keyPair ]_vars

\* C3 witness: the fallback was taken on a list of two, the first element
\* resolved and is the active session's key pair.
C3_Witness ==
  /\ Completed("handleUserAuth")
  /\ call.force = Null
  /\ call.keyPair = Null
  /\ Len(call.keyPairs) > 1
  /\ user # Null
  /\ user.keyPair = Head(call.keyPairs)

\* C4: a change of activeSession to a non-null session schedules the
\* reconciliation reaction; when the reaction runs on a non-null activeSession
\* it sets the persisted active key pair to activeSession.keyPair if none is
\* persisted or its publicKey differs, and leaves the store as it is otherwise;
\* so after setUser has run alone and its reaction has run, the persisted
\* active key pair has the publicKey of activeSession.
C4_ReconcileActiveKeyPair ==
  /\ [][ /\ (user' # user /\ user' # Null => userEffect')
         /\ (userEffect /\ ~userEffect' /\ user # Null
             => /\ lsKeyPairs' = lsKeyPairs
                /\ lsKeyPair' =
                     IF lsKeyPair = Null
                        \/ lsKeyPair.publicKey # user.keyPair.publicKey
                     THEN user.keyPair ELSE lsKeyPair) ]_vars
  /\ [](Completed("setUser")
        => lsKeyPair # Null /\ lsKeyPair.publicKey = user.keyPair.publicKey)

\* C4 witness: setUser selected a session whose publicKey differed from the
\* persisted one, and the reaction has persisted the selected key pair.
C4_Witness ==
  /\ Completed("setUser")
  /\ call.keyPair # Null
  /\ call.keyPair.publicKey # user.keyPair.publicKey
  /\ lsKeyPair = user.keyPair

\* C5: a handleUserAuth() that runs alone to completion right after another
\* handleUserAuth() that ran alone to completion leaves activeSession,
\* knownSessions (by publicKey) and the store as the first one left them.
C5_HandleUserAuthIdempotent ==
  ( /\ Completed("handleUserAuth")
    /\ call.force = Null
    /\ call.once # Null )
  => Snapshot = call.once

\* C6: a handleUserAuth that has a candidate sets loading; loading is false
\* as soon as the candidate's resolution has completed, whatever its outcome,
\* and as soon as handleUserAuth has returned when there is no candidate.
C6_LoadingEnds ==
  [][ /\ (calls' = calls + 1 /\ manageReqs' # manageReqs => loading')
      /\ (calls' = calls + 1 /\ manageReqs' = manageReqs /\ call'.fail = "none"
          => ~loading')
      /\ (\A r \in manageReqs : r \notin manageReqs' => ~loading') ]_vars

\* The bulk resolution r settles in this step.
Settles(r) == r \in bulkReqs /\ \A q \in bulkReqs' : q.inv # r.inv

\* C7: when a bulk resolution has settled with a failure for one of its key
\* pairs, knownSessions has no entry for that key pair and has the entry of
\* every other key pair of the bulk list that resolved to a profile.
C7_BulkFailureExcludesOneEntry ==
  [][ \A r \in bulkReqs :
        ( /\ Settles(r)
          /\ \E i \in 1..Len(r.keyPairs) : fetchRejects(r.keyPairs[i]) )
        => \A i \in 1..Len(r.keyPairs) :
             (\E j \in 1..Len(users') : users'[j].keyPair = r.keyPairs[i])
               <=> fetchJSON(r.keyPairs[i].publicKey) = "ok" ]_vars

\* C10: after a signOut() in which a storage access failed, signOut() has not
\* rejected to its caller and error holds the failure.
C10_SignOutCapturesFailure ==
  call.op = "signOut" /\ call.fail # "none" => ~thrown /\ error = StorageError

\* C10 witness: removeKeyPair threw after the 'keyPair' item was removed.
C10_Witness ==
  /\ call.op = "signOut"
  /\ call.fail = "removeKeyPair"
  /\ call.keyPair # Null
  /\ error = StorageError
  /\ ~thrown

\* C8: a notification request is issued only in a state where the screen is
\* not the notifications screen, activeSession is non-null and
\* lastCheckedNotifications is non-null, and it carries the id of that
\* activeSession and that lastCheckedNotifications.
C8_PollOnlyWhenEnabled ==
  [][ poll' # poll /\ poll' # Null
      => /\ pathname # "/notifications"
         /\ user # Null
         /\ lastCheckedNotifications # Null
         /\ poll' = [userId |-> user.id,
                     last_time |-> toISOString(lastCheckedNotifications)] ]_vars

\* C8 witness: a request in flight for the active session, carrying a
\* lastCheckedNotifications set by a reset after the clock advanced.
C8_Witness ==
  /\ poll # Null
  /\ user # Null
  /\ poll.userId = user.id
  /\ poll.last_time = toISOString(Date(now))
  /\ now > 1

\* C9: after mount a change of lastCheckedNotifications sets it to the current
\* time; once the persisting reaction has run the 'lastChecked' item is the
\* ISO string of lastCheckedNotifications and reads back as it; at mount
\* lastCheckedNotifications is the persisted value, or the current time when
\* nothing is persisted.
C9_LastCheckedPersisted ==
  /\ [][ /\ (mounted /\ lastCheckedNotifications' # lastCheckedNotifications
             => lastCheckedNotifications' = Date(now) /\ lcEffect')
         /\ (~mounted /\ mounted'
             => /\ lastCheckedNotifications' =
                     IF lsLastChecked = Null THEN Date(now)
                     ELSE parseDate(lsLastChecked)
                /\ lcEffect') ]_vars
  /\ [](~lcEffect /\ lastCheckedNotifications # Null
        => /\ lsLastChecked = toISOString(lastCheckedNotifications)
           /\ parseDate(lsLastChecked) = lastCheckedNotifications)

\* C9 witness: a reset after the clock advanced has been persisted.
C9_Witness ==
  /\ ~lcEffect
  /\ now > 1
  /\ lastCheckedNotifications = Date(now)
  /\ lsLastChecked = toISOString(Date(now))

\* C11: when the active-candidate resolution completes with null or fails,
\* activeSession and error are what they were and loading is false; and
\* handleUserAuth sets a non-null activeSession to null only when it has no
\* candidate (it starts no resolution).
C11_UnresolvedKeepsSession ==
  [][ /\ \A r \in manageReqs :
           r \notin manageReqs' /\ fetchJSON(r.keyPair.publicKey) # "ok"
           => user' = user /\ error' = error /\ ~loading'
      /\ (calls' = calls + 1 /\ user # Null /\ user' = Null
          => manageReqs' = manageReqs) ]_vars

\* C12: a handleUserAuth(forceKeyPair) leaves forceKeyPair persisted as the
\* active key pair and exactly one entry with its publicKey in the store's
\* list: the list it found when it had one, that list with forceKeyPair
\* appended when it had none.
C12_ForcedKeyPairOnboarded ==
  [][ ( /\ calls' = calls + 1
        /\ call'.op = "handleUserAuth"
        /\ call'.force # Null )
      => LET k    == call'.force.publicKey
             had  == \E i \in 1..Len(lsKeyPairs) : lsKeyPairs[i].publicKey = k
         IN /\ lsKeyPair' = call'.force
            /\ Cardinality({i \in 1..Len(lsKeyPairs') :
                              lsKeyPairs'[i].publicKey = k}) = 1
            /\ lsKeyPairs' = IF had THEN lsKeyPairs
                             ELSE Append(lsKeyPairs, call'.force) ]_vars

\* C12 witness: a forced key pair was appended to a non-empty list.
C12_Witness ==
  /\ call.op = "handleUserAuth"
  /\ call.force # Null
  /\ Len(call.keyPairs) > 0
  /\ \A i \in 1..Len(call.keyPairs) :
       call.keyPairs[i].publicKey # call.force.publicKey
  /\ lsKeyPair = call.force
  /\ lsKeyPairs = Append(call.keyPairs, call.force)

\* The sessions of the key pairs of a list that resolve to a profile, in the
\* order of the list, each with the key pair it was resolved from.
SessionsInOrder(keyPairs) ==
  LET resolved == SelectSeq(keyPairs, LAMBDA kp : fetchJSON(kp.publicKey) = "ok")
  IN [j \in 1..Len(resolved) |->
        [id |-> 100 + resolved[j].publicKey, keyPair |-> resolved[j]]]

\* C13: when the bulk resolution of an invocation completes, whatever the
\* order in which its fetches were answered, knownSessions is the sessions of
\* the resolving key pairs in the order of the list the invocation read, each
\* entry with the key pair its profile was resolved from.
C13_KnownSessionsInStoreOrder ==
  [][ \A r \in bulkReqs :
        ( /\ Settles(r)
          /\ \A i \in 1..Len(r.keyPairs) : ~fetchRejects(r.keyPairs[i]) )
        => users' = SessionsInOrder(r.keyPairs) ]_vars

\* C13 witness: a store [2, 1] whose key pairs both resolve, after a
\* handleUserAuth() that ran alone.
C13_Witness ==
  /\ Completed("handleUserAuth")
  /\ call.force = Null
  /\ call.keyPairs = <<KeyPair(2), KeyPair(1)>>
  /\ users = <<UserWithKey(UserFull(KeyPair(2)), KeyPair(2)),
               UserWithKey(UserFull(KeyPair(1)), KeyPair(1))>>

\* C14: handleUserAuth() without a forced key pair on a store with no key
\* pair and no active key pair makes activeSession null, knownSessions empty
\* and loading false, starts no resolution and leaves the store as it was.
C14_EmptyStoreSignedOut ==
  [][ ( /\ calls' = calls + 1
        /\ call'.op = "handleUserAuth"
        /\ call'.force = Null
        /\ lsKeyPair = Null
        /\ lsKeyPairs = <<>> )
      => /\ user' = Null
         /\ users' = <<>>
         /\ ~loading'
         /\ manageReqs' = manageReqs
         /\ bulkReqs' = bulkReqs
         /\ lsKeyPair' = Null
         /\ lsKeyPairs' = <<>> ]_vars

\* C14 witness: such a call, made after the mount, has just cleared a session.
C14_Witness ==
  /\ call.op = "handleUserAuth"
  /\ call.force = Null
  /\ call.keyPair = Null
  /\ call.keyPairs = <<>>
  /\ calls > 1
  /\ user = Null
  /\ userEffect
  /\ users = <<>>
  /\ ~loading

\* C15: overlapping invocations are neither cancelled nor sequenced: the bulk
\* result of an invocation that a later invocation has superseded is committed
\* to knownSessions all the same, also when every later invocation has
\* committed its own already.  The witness is the interleaving in which
\* knownSessions ends with the list of the older snapshot.
C15_SupersededBulkResultCommitted ==
  [][ \A r \in bulkReqs :
        ( /\ Settles(r)
          /\ \A i \in 1..Len(r.keyPairs) : ~fetchRejects(r.keyPairs[i])
          /\ r.inv < calls
          /\ \A q \in bulkReqs : q.inv <= r.inv )
        => users' = SessionsInOrder(r.keyPairs) ]_vars

\* C15 witness: every bulk resolution has been committed, the last invocation
\* was a handleUserAuth() that read call.keyPairs, and knownSessions is not
\* the result for that list: an older invocation committed last.
C15_Witness ==
  /\ call.op = "handleUserAuth"
  /\ call.force = Null
  /\ calls > 1
  /\ NoRejection
  /\ bulkReqs = {}
  /\ Len(call.keyPairs) > 0
  /\ Len(users) > 0
  /\ users # SessionsInOrder(call.keyPairs)

\* The store's persisted active key pair has the publicKey of activeSession.
ActiveMatchesStore ==
  lsKeyPair # Null /\ lsKeyPair.publicKey = user.keyPair.publicKey

AllResolve == error = Null /\ \A k \in Keys : fetchJSON(k) = "ok"

StoredKey(keyPair) == IF keyPair = Null THEN 0 ELSE keyPair.publicKey

\* C17: after a signOut() that removed key pair K, as long as no further
\* operation is called, the answer to a resolution that was in flight for K
\* when signOut() ran does not make K the key pair of activeSession again
\* (from where the reconciliation would persist it as the active key pair).
C17_SignedOutKeyPairStaysOut ==
  [][ ( /\ call.op = "signOut"
        /\ call.fail = "none"
        /\ call.keyPair # Null
        /\ call' = call )
      => LET k == call.keyPair.publicKey
         IN \A r \in manageReqs :
                 ( /\ r \notin manageReqs'
                   /\ r.inv < calls
                   /\ r.keyPair.publicKey = k
                   /\ PublicKeyOf(user) # k )
                 => PublicKeyOf(user') # k ]_vars

\* C18: last request wins: once handleUserAuth(B) was the last operation
\* called, B resolves to a profile and every resolution and reaction has
\* finished, activeSession.keyPair and the persisted active key pair are B,
\* whatever earlier invocation was still in flight when it was called.
C18_LastRequestWins ==
  ( /\ call.op = "handleUserAuth"
    /\ call.force # Null
    /\ fetchJSON(call.force.publicKey) = "ok"
    /\ Quiescent )
  => /\ PublicKeyOf(user) = call.force.publicKey
     /\ StoredKey(lsKeyPair) = call.force.publicKey

\* C19: loading is true while the active-candidate resolution of the most
\* recent invocation of handleUserAuth is in flight.
C19_LoadingWhileResolving ==
  (\E r \in manageReqs : r.inv = calls) => loading

\* C20: the store's list never holds two entries with one publicKey, and in
\* every quiescent state after an operation a non-null persisted active key
\* pair is an entry of the list.
C20_StoreConsistent ==
  /\ NoDuplicates(lsKeyPairs)
  /\ (mounted /\ Quiescent /\ error = Null /\ lsKeyPair # Null)
     => find(lsKeyPairs, lsKeyPair)

====
